---- MODULE Spec2Model ----
(***************************************************************************)
(* Authentication core of the fastify service: the credential codec        *)
(* (utils/token: sign, verify, decode on top of jsonwebtoken), the session *)
(* cache kept in Redis (utils/redis) and the login flows that use both     *)
(* (AuthService.login, WechatService.merchantLogin).                       *)
(*                                                                         *)
(* Time is the wall clock in whole Unix seconds, Math.floor(Date.now() /   *)
(* 1000), which is the only resolution the code and jsonwebtoken read; the *)
(* milliseconds of Date.now() within the second are kept in `millis`.      *)
(***************************************************************************)
EXTENDS Integers, Sequences, FiniteSets, TLC

VARIABLES
    now,        \* wall clock, Unix seconds
    ticks,      \* how many times the clock has advanced (bounds the run)
    account,    \* Account collection: account id -> stored document fields
    cache,      \* Redis keyspace: session handle -> entry or NoEntry
    nextHandle, \* how many handles generateUUID has handed out
    signCalls,  \* how many times a login has called sign
    proc,       \* login requests in flight: position and locals of each
    lastSaver,  \* per account, the request whose updateLastLogin ran last
    prevCall,   \* per account, the outcome of the login that completed last
    issued,     \* codec: what the last sign call was given and returned
    verdict,    \* codec: what the last verify call was given and returned
    decoded,    \* codec: what the last decode call was given and returned
    millis,     \* wall clock, milliseconds within the second `now`
    twice,      \* codec: two sign calls of one payload and their instants
    hookRequest,\* authentication hook: the last request and what became of it
    enforcer,   \* ORMManager.enforcer: "none" until initialize has run
    policy,     \* the enforcer's rules, in the order they were added
    checked,    \* the last checkPermission call and how it ended
    gate,       \* authorization hook: the last request and what became of it
    abac        \* AbacService: the last call and what it returned

\* The state of the components that the logins and sign/verify leave alone.
policyVars == <<enforcer, policy, checked, gate, abac>>
laterVars == <<decoded, millis, twice, hookRequest, policyVars>>

vars == <<now, ticks, account, cache, nextHandle, signCalls, proc,
          lastSaver, prevCall, issued, verdict, decoded, millis, twice,
          hookRequest, enforcer, policy, checked, gate, abac>>

(***************************************************************************)
(* Bounds of the model.                                                    *)
(***************************************************************************)
MaxTicks == 1
MaxCodecTicks == 2
MaxHandles == 2
StartTime == 1000000
MaxMillis == 2
MaxRules == 2

(***************************************************************************)
(* Configuration (config/key, mocked in test/utils/token/token.test.ts).   *)
(***************************************************************************)
\* KEY.expiresIn: "24 hours in milliseconds".
ExpiresIn == 86400000
MsPerSecond == 1000
\* The offset the tests use for an expired exp and a future nbf.
Hour == 3600
ServerName == "fastify-app"
SecretKey == "secret-key"
WrongSecretKey == "wrong-secret-key"

\* A JavaScript undefined: a string-valued field that is absent.
Absent == "undefined"
\* An absent numeric claim (exp, nbf, iat, options.expiresIn).
NoNum == -1

(***************************************************************************)
(* jsonwebtoken, as the codec uses it.                                     *)
(*                                                                         *)
(* A token is its three segments: the header is fixed (HS256), the claims  *)
(* segment is the record `claims` and the signature segment is `mac`. The  *)
(* HMAC of a claims segment under a key is modelled as the pair (key,      *)
(* claims): two MACs are equal exactly when key and claims are equal.      *)
(* form is "jwt" for a three-segment token whose segments decode, and      *)
(* "malformed" or "empty" for strings jsonwebtoken cannot decode. kind is  *)
(* "object" for a JSON object payload and "string" for a payload that is   *)
(* not JSON.                                                               *)
(***************************************************************************)
Mac(key, claims) == [key |-> key, body |-> claims]

\* The payload of the codec: id, role, and the optional fields the callers
\* and tests pass (username, email, one extension field). The registered
\* claims are part of the type (TokenPayload extends JwtPayload).
MkPayload(id, username, email, role, ext) ==
    [id |-> id, username |-> username, email |-> email, role |-> role,
     ext |-> ext, iat |-> NoNum, exp |-> NoNum, nbf |-> NoNum,
     iss |-> Absent, aud |-> Absent, sub |-> Absent]

NoPayload == MkPayload(Absent, Absent, Absent, <<>>, Absent)
NoOptions == [expiresIn |-> NoNum, audience |-> Absent, subject |-> Absent,
              issuer |-> Absent]

NoToken == [form |-> "empty", kind |-> "object", claims |-> NoPayload,
            mac |-> Mac(Absent, NoPayload)]
MalformedToken == [NoToken EXCEPT !.form = "malformed"]

\* jwt.sign(payload, key, options) at clock t. An option that names a claim
\* the payload already carries is an error; iat defaults to the clock; exp
\* is iat plus options.expiresIn, which a number gives in SECONDS.
JwtSignClaims(payload, options, t) ==
    LET iat == IF payload.iat # NoNum THEN payload.iat ELSE t
    IN  [payload EXCEPT
            !.iat = iat,
            !.exp = IF options.expiresIn # NoNum
                       THEN iat + options.expiresIn ELSE payload.exp,
            !.aud = IF options.audience # Absent
                       THEN options.audience ELSE payload.aud,
            !.iss = IF options.issuer # Absent
                       THEN options.issuer ELSE payload.iss,
            !.sub = IF options.subject # Absent
                       THEN options.subject ELSE payload.sub]

JwtSignRejects(payload, options) ==
    \/ options.expiresIn # NoNum /\ payload.exp # NoNum
    \/ options.audience # Absent /\ payload.aud # Absent
    \/ options.issuer # Absent /\ payload.iss # Absent
    \/ options.subject # Absent /\ payload.sub # Absent

JwtSign(payload, key, options, t) ==
    IF JwtSignRejects(payload, options)
    THEN [ok |-> FALSE, token |-> NoToken]
    ELSE LET claims == JwtSignClaims(payload, options, t)
         IN  [ok |-> TRUE,
              token |-> [form |-> "jwt", kind |-> "object", claims |-> claims,
                         mac |-> Mac(key, claims)]]

\* jwt.verify(token, key, options) at clock t: the name of the error it
\* throws, or "ok". The checks run in jsonwebtoken's order.
JwtVerifyError(token, key, options, t) ==
    IF token.form = "empty" THEN "JsonWebTokenError: jwt must be provided"
    ELSE IF token.form # "jwt" THEN "JsonWebTokenError: jwt malformed"
    ELSE IF token.mac # Mac(key, token.claims)
        THEN "JsonWebTokenError: invalid signature"
    ELSE IF token.claims.nbf # NoNum /\ token.claims.nbf > t
        THEN "NotBeforeError: jwt not active"
    ELSE IF token.claims.exp # NoNum /\ t >= token.claims.exp
        THEN "TokenExpiredError: jwt expired"
    ELSE IF options.audience # Absent /\ token.claims.aud # options.audience
        THEN "JsonWebTokenError: jwt audience invalid"
    ELSE IF options.issuer # Absent /\ token.claims.iss # options.issuer
        THEN "JsonWebTokenError: jwt issuer invalid"
    ELSE IF options.subject # Absent /\ token.claims.sub # options.subject
        THEN "JsonWebTokenError: jwt subject invalid"
    ELSE "ok"

(***************************************************************************)
(* utils/token.                                                            *)
(***************************************************************************)
SignOptionsNoSubject == [expiresIn |-> ExpiresIn, audience |-> ServerName,
                         subject |-> Absent, issuer |-> ServerName]
SignOptions == [expiresIn |-> ExpiresIn, audience |-> ServerName,
                subject |-> ServerName, issuer |-> ServerName]

VerifyOptionsNoSubject == [expiresIn |-> NoNum, audience |-> ServerName,
                           subject |-> Absent, issuer |-> ServerName]
VerifyOptions == [expiresIn |-> NoNum, audience |-> ServerName,
                  subject |-> ServerName, issuer |-> ServerName]

signFrozenClock(payload, t, t2) ==
    LET r == JwtSign(payload, SecretKey, SignOptions, StartTime)
    IN  [ok |-> r.ok, token |-> r.token,
         expiresAt |-> t2 + (ExpiresIn \div MsPerSecond)]
\* sign(payload): jwt.sign reads the clock at t, the expiry computation
\* reads it again at t2 (t2 is t, or the next second when the second turns
\* between the two reads; the logins are modelled with both reads in the
\* same second). A jwt.sign error propagates.
sign(payload, t, t2) ==
    LET r == JwtSign(payload, SecretKey, SignOptions, t)
    IN  [ok |-> r.ok,
         token |-> r.token,
         expiresAt |-> IF r.ok THEN t2 + (ExpiresIn \div MsPerSecond)
                               ELSE NoNum]

\* verify(token) at clock t: the payload, or the error thrown.
verify(token, t) ==
    LET err == JwtVerifyError(token, SecretKey, VerifyOptions, t)
    IN  IF err # "ok"
        THEN [ok |-> FALSE, error |-> err, payload |-> NoPayload]
        ELSE IF token.kind = "string"
        THEN [ok |-> FALSE, error |-> "CryptoError: verify Invalid token",
              payload |-> NoPayload]
        ELSE [ok |-> TRUE, error |-> "ok", payload |-> token.claims]

(***************************************************************************)
(* The codec on its own: sign and verify applied to the payloads of the    *)
(* test suite and to the tokens its rejection tests craft.                 *)
(***************************************************************************)
\* mockPayload, minimalPayload, extendedPayload and emptyPayload of
\* token.test.ts, and two payloads that carry a registered claim.
MockPayload ==
    MkPayload("user123", "testuser", "test@example.com",
              <<"admin", "user">>, Absent)
MinimalPayload == MkPayload("user456", Absent, Absent, <<>>, Absent)
ExtendedPayload == [MockPayload EXCEPT !.ext = "customValue"]
EmptyPayload == MkPayload("", "", "", <<>>, Absent)

PlainPayloads ==
    {MockPayload, MinimalPayload, ExtendedPayload, EmptyPayload}

\* A payload is a credential payload of the data model when it carries
\* identity fields and opaque extension fields only, none of the claims
\* jsonwebtoken itself interprets.
ValidPayload(p) ==
    /\ p.iat = NoNum /\ p.exp = NoNum /\ p.nbf = NoNum
    /\ p.iss = Absent /\ p.aud = Absent /\ p.sub = Absent

SignInputs(t) ==
    PlainPayloads \cup
    {[MockPayload EXCEPT !.nbf = t + Hour],
     [MockPayload EXCEPT !.exp = t + Hour]}

\* The second clock read of sign falls in the same second or the next.
ClockSkews == {0, 1}

NoIssue == [payload |-> NoPayload, at |-> NoNum,
            out |-> [ok |-> FALSE, token |-> NoToken, expiresAt |-> NoNum]]
NoVerdict == [token |-> NoToken, at |-> NoNum,
              res |-> [ok |-> FALSE, error |-> "none", payload |-> NoPayload]]

\* What a test or an attacker makes at clock t from payload p.
Crafted(p, t) ==
    LET made(q, key, options) == JwtSign(q, key, options, t).token
    IN  { made(p, WrongSecretKey, NoOptions),
          made(p, WrongSecretKey, SignOptions),
          made([p EXCEPT !.exp = t - Hour], SecretKey, NoOptions),
          made([p EXCEPT !.nbf = t + Hour], SecretKey, NoOptions),
          made([p EXCEPT !.aud = "wrong-audience"], SecretKey, NoOptions),
          made([p EXCEPT !.iss = "wrong-issuer"], SecretKey, NoOptions),
          made(p, SecretKey, [SignOptions EXCEPT !.audience = "wrong-audience"]),
          made(p, SecretKey, [SignOptions EXCEPT !.issuer = "wrong-issuer"]),
          made(p, SecretKey, [SignOptions EXCEPT !.subject = "wrong-subject"]),
          made(p, SecretKey, [SignOptions EXCEPT !.expiresIn = NoNum]),
          made([p EXCEPT !.nbf = t + Hour], SecretKey, SignOptions),
          made([p EXCEPT !.nbf = t - Hour], SecretKey, SignOptions),
          [form |-> "jwt", kind |-> "string", claims |-> NoPayload,
           mac |-> Mac(SecretKey, NoPayload)],
          MalformedToken,
          NoToken }

\* What can be made of an issued token without the key: the signature
\* segment altered, or the claims segment altered under the old signature.
Tampered(token) ==
    { [token EXCEPT !.mac = Mac("altered", token.claims)],
      [token EXCEPT !.claims.id = "intruder"],
      [token EXCEPT !.claims.exp = @ + Hour] }

Presentable ==
    IF issued.at = NoNum THEN Crafted(MockPayload, now)
    ELSE Crafted(issued.payload, now) \cup
         (IF issued.out.ok
             THEN {issued.out.token} \cup Tampered(issued.out.token)
             ELSE {})

CodecSign ==
    /\ UNCHANGED laterVars
    /\ \E p \in SignInputs(now), skew \in ClockSkews :
          issued' = [payload |-> p, at |-> now, out |-> sign(p, now, now + skew)]
    /\ verdict' = NoVerdict
    /\ UNCHANGED <<now, ticks, account, cache, nextHandle, signCalls, proc,
                   lastSaver, prevCall>>

CodecVerify ==
    /\ UNCHANGED laterVars
    /\ \E token \in Presentable :
          verdict' = [token |-> token, at |-> now, res |-> verify(token, now)]
    /\ UNCHANGED <<now, ticks, account, cache, nextHandle, signCalls, proc,
                   lastSaver, prevCall, issued>>

\* Between two steps of the logins the clock advances by the lifetime the
\* code reports (KEY.expiresIn read as milliseconds) or by KEY.expiresIn
\* seconds.
TickSteps == {ExpiresIn \div MsPerSecond, ExpiresIn}

Tick ==
    /\ UNCHANGED laterVars
    /\ ticks < MaxTicks
    /\ \E d \in TickSteps : now' = now + d
    /\ ticks' = ticks + 1
    /\ UNCHANGED <<account, cache, nextHandle, signCalls, proc, lastSaver,
                   prevCall, issued, verdict>>

\* Between two calls of the codec it advances by these, or by a second.
CodecTick ==
    /\ UNCHANGED laterVars
    /\ ticks < MaxCodecTicks
    /\ \E d \in TickSteps \cup {1} : now' = now + d
    /\ ticks' = ticks + 1
    /\ UNCHANGED <<account, cache, nextHandle, signCalls, proc, lastSaver,
                   prevCall, issued, verdict>>

(***************************************************************************)
(* The stores.                                                             *)
(***************************************************************************)
Accounts == {"acc1"}
\* What a login request can name: an account, or a name no account has.
Passwords == {"pw-good", "pw-bad"}
Flows == {"login", "merchantLogin"}
Request(flow, name, password) ==
    [flow |-> flow, name |-> name, password |-> password]
Requests ==
    {Request(flow, a, pw) : flow \in Flows, a \in Accounts, pw \in Passwords}
    \cup {Request("login", "nobody", "pw-good")}
Procs == {1, 2}

\* generateUUID draws crypto.randomUUID(): each call returns a handle no
\* earlier call returned. Handle 0 is the empty accessToken (null or "").
NoHandle == 0
Handles == 1 .. MaxHandles

\* The fields of an account document that the logins read or write. The
\* one account of the model is an active merchant account with two roles.
AccountDoc(a) ==
    [id |-> a,
     username |-> "alice",
     email |-> "alice@example.com",
     password |-> "pw-good",
     userType |-> "merchant",
     isActive |-> TRUE,
     roles |-> <<"admin", "user">>,
     accessToken |-> NoHandle,
     lastLoginAt |-> NoNum]

NoUser == [AccountDoc("acc1") EXCEPT !.id = Absent]

NoEntry == [token |-> NoToken, expiresAt |-> NoNum, setAt |-> NoNum,
            ttl |-> NoNum]

\* RedisService.set(key, value, ttl) at clock t: SETEX with ttl SECONDS when
\* ttl is truthy, a plain SET (no expiry) otherwise.
RedisSet(value, ttl, t) ==
    [token |-> value.token, expiresAt |-> value.expiresAt, setAt |-> t,
     ttl |-> IF ttl # 0 THEN ttl ELSE NoNum]

\* Redis drops a key once its time-to-live has run out.
Live(entry, t) ==
    /\ entry.setAt # NoNum
    /\ entry.ttl # NoNum => t < entry.setAt + entry.ttl

\* RedisService.exists(key) and RedisService.get(key) at clock t.
RedisExistsNever(key, t) == FALSE
RedisExists(key, t) == key \in Handles /\ Live(cache[key], t)
RedisGetRefreshed(key, t) ==
    IF key \in Handles /\ Live(cache[key], t)
    THEN [cache[key] EXCEPT !.expiresAt = t + (ExpiresIn \div MsPerSecond)]
    ELSE NoEntry
RedisGet(key, t) ==
    IF key \in Handles /\ Live(cache[key], t) THEN cache[key] ELSE NoEntry

\* accountSchema.methods.validatePassword: bcrypt.compare, a promise of the
\* comparison.
validatePassword(user, password) == password = user.password

\* AuthService.login tests `!user.validatePassword(...)`, the promise itself
\* and not its value: a Promise object is truthy, so the test never fails.
LoginRejectsPassword(user, password) == FALSE

\* WechatService.merchantLogin awaits the comparison.
MerchantRejectsPassword(user, password) == ~validatePassword(user, password)

(***************************************************************************)
(* A login request. pc is the await the request is suspended at.           *)
(***************************************************************************)
Pair(token, expiresAt) == [token |-> token, expiresAt |-> expiresAt]
NoPair == Pair(NoToken, NoNum)

Idle ==
    [pc |-> "idle", user |-> NoUser, handle |-> NoHandle, signed |-> NoPair, ret |-> NoPair,
     minted |-> FALSE]

\* prevCall: no call yet, or the latest call threw or its slot is in use
\* again.
NoCall == 0

InFlight(p) == proc[p].pc \in {"find", "exists", "get", "save", "set"}

\* Before the first decode call, and before the first of two sign calls.
NoDecoded == [token |-> NoToken, at |-> NoNum,
              res |-> [ok |-> FALSE, error |-> "none", payload |-> NoPayload]]
NoSigned == [at |-> NoNum,
             out |-> [ok |-> FALSE, token |-> NoToken, expiresAt |-> NoNum]]
NoTwice == [payload |-> NoPayload, first |-> NoSigned, second |-> NoSigned]

\* A string of the request line or of a header is a sequence of pieces;
\* startsWith compares piece by piece.
NoHeader == [prefix |-> Absent, rest |-> NoToken]
NoAuthError == [statusCode |-> 0, code |-> "none", message |-> "none"]
NoIdentity == [id |-> Absent, username |-> Absent, email |-> Absent,
               roles |-> <<>>, claims |-> NoPayload]
NoRequest == [rev |-> "none", url |-> <<>>, header |-> NoHeader, at |-> NoNum,
              outcome |-> "none", user |-> NoIdentity, error |-> NoAuthError]

\* The request context (sub, obj, act, env, eft) and the results of the
\* permission check and of the authorization hook before the first call.
NoContext == [sub |-> Absent, obj |-> Absent, act |-> Absent, env |-> Absent,
              eft |-> Absent]
NoError == [name |-> "none", statusCode |-> 0, code |-> "none",
            message |-> "none"]
NoCheck == [called |-> FALSE, context |-> NoContext, thrown |-> FALSE,
            error |-> NoError, allowed |-> FALSE, enforced |-> FALSE]
NoGate == [called |-> FALSE, url |-> <<>>, method |-> Absent,
           userId |-> Absent, outcome |-> "none", error |-> NoError,
           casbinContext |-> NoContext, result |-> NoCheck]

\* Before the first call of AbacService.
NoAbac == [op |-> "none", resource |-> Absent, action |-> Absent,
           account |-> Absent, env |-> Absent, eft |-> Absent,
           thrown |-> FALSE, returned |-> FALSE, permission |-> NoCheck]

Init ==
    /\ abac = NoAbac
    /\ enforcer = "none"
    /\ policy = <<>>
    /\ checked = NoCheck
    /\ gate = NoGate
    /\ hookRequest = NoRequest
    /\ decoded = NoDecoded
    /\ millis = 0
    /\ twice = NoTwice
    /\ now = StartTime
    /\ ticks = 0
    /\ account = [a \in Accounts |-> AccountDoc(a)]
    /\ cache = [h \in Handles |-> NoEntry]
    /\ nextHandle = 0
    /\ signCalls = 0
    /\ proc = [p \in Procs |-> Idle]
    /\ lastSaver = [a \in Accounts |-> 0]
    /\ prevCall = [a \in Accounts |-> NoCall]
    /\ issued = NoIssue
    /\ verdict = NoVerdict

\* prevCall[a] is the slot of the request for account a that completed
\* last, while that slot still holds what the request returned.
Forget(p) == [a \in Accounts |-> IF prevCall[a] = p THEN NoCall ELSE prevCall[a]]

\* The request for account `name` ends by throwing: the catch block
\* rethrows a business error with the message (the message is the caller's
\* and is not kept). A call that throws ends the run of returning calls.
Throw(p, name, message) ==
    /\ message # "ok"
    /\ proc' = [proc EXCEPT ![p] = [Idle EXCEPT !.pc = "failed"]]
    /\ prevCall' = [a \in Accounts |->
                       IF a = name THEN NoCall ELSE Forget(p)[a]]

\* Lines 47-55: a new handle, the payload from the document read, sign, and
\* updateLastLogin is called (its save is the next await).
TokenPayloadNoRoles(user) ==
    MkPayload(user.id, user.username, user.email, <<>>, Absent)
TokenPayloadOf(user) ==
    MkPayload(user.id, user.username, user.email, user.roles, Absent)

Mint(p, user) ==
    /\ nextHandle < MaxHandles
    /\ LET out == sign(TokenPayloadOf(user), now, now)
       IN  proc' = [proc EXCEPT ![p] =
                       [Idle EXCEPT !.user = user,
                                    !.pc = "save",
                                    !.handle = nextHandle + 1,
                                    !.minted = TRUE,
                                    !.signed = Pair(out.token, out.expiresAt)]]
    /\ nextHandle' = nextHandle + 1
    /\ signCalls' = signCalls + 1
    /\ prevCall' = Forget(p)
    /\ UNCHANGED <<account, cache, lastSaver>>

\* The checks between the lookup and the session test.
LoginChecks(flow, user, password) ==
    IF flow = "login"
    THEN IF LoginRejectsPassword(user, password)
            THEN "auth.login.invalid_password" ELSE "ok"
    ELSE IF user.userType # "merchant" THEN "not a merchant account"
    ELSE IF ~user.isActive THEN "account disabled"
    ELSE IF MerchantRejectsPassword(user, password) THEN "wrong password"
    ELSE "ok"

\* The document a lookup hands to the request: the fields login reads
\* later (lastLoginAt is written, never read).
Snapshot(doc) == [doc EXCEPT !.lastLoginAt = NoNum]

\* What is kept of a request that has returned: whose it was, the handle
\* it used, whether it minted, and the pair it returned.
Returned(user, handle, minted, ret) ==
    [Idle EXCEPT !.pc = "done", !.user = [NoUser EXCEPT !.id = user.id],
                 !.handle = handle, !.minted = minted, !.ret = ret]

\* A request arrives, AuthService.login(body) or merchantLogin(phone,
\* password), and its first await, the account lookup (Account.findOne,
\* findByPhone), resolves; the code runs to its next await. The slot of a
\* request that has completed is reused.
FindOne(p, request) ==
    /\ UNCHANGED laterVars
    /\ ~InFlight(p)
    /\ UNCHANGED <<now, ticks, issued, verdict>>
    /\ \/ /\ Throw(p, request.name, "store unavailable")
          /\ UNCHANGED <<account, cache, nextHandle, signCalls, lastSaver>>
       \/ /\ request.name \notin Accounts
          /\ Throw(p, request.name, "auth.login.account_not_found")
          /\ UNCHANGED <<account, cache, nextHandle, signCalls, lastSaver>>
       \/ /\ request.name \in Accounts
          /\ LET user == Snapshot(account[request.name])
                 check == LoginChecks(request.flow, user, request.password)
             IN  IF check # "ok"
                 THEN /\ Throw(p, request.name, check)
                      /\ UNCHANGED <<account, cache, nextHandle, signCalls,
                                     lastSaver>>
                 ELSE IF user.accessToken # NoHandle
                 THEN /\ proc' = [proc EXCEPT ![p] =
                                     [Idle EXCEPT !.user = user,
                                                  !.pc = "exists"]]
                      /\ prevCall' = Forget(p)
                      /\ UNCHANGED <<account, cache, nextHandle, signCalls,
                                     lastSaver>>
                 ELSE Mint(p, user)

\* redisService.exists(user.accessToken) resolves.
Exists(p) ==
    /\ UNCHANGED laterVars
    /\ proc[p].pc = "exists"
    /\ UNCHANGED <<now, ticks, issued, verdict>>
    /\ \/ /\ Throw(p, proc[p].user.id, "cache unavailable")
          /\ UNCHANGED <<account, cache, nextHandle, signCalls, lastSaver>>
       \/ /\ RedisExists(proc[p].user.accessToken, now)
          /\ proc' = [proc EXCEPT ![p].pc = "get"]
          /\ UNCHANGED <<account, cache, nextHandle, signCalls, lastSaver,
                         prevCall>>
       \/ /\ ~RedisExists(proc[p].user.accessToken, now)
          /\ Mint(p, proc[p].user)

\* redisService.get(user.accessToken) resolves; the cached pair is returned.
\* A key that has gone since the exists call reads as null, and reading
\* tokenCache.token of null throws.
Get(p) ==
    /\ UNCHANGED laterVars
    /\ proc[p].pc = "get"
    /\ UNCHANGED <<now, ticks, issued, verdict, account, cache, nextHandle,
                   signCalls, lastSaver>>
    /\ \/ Throw(p, proc[p].user.id, "cache unavailable")
       \/ /\ ~RedisExists(proc[p].user.accessToken, now)
          /\ Throw(p, proc[p].user.id, "Cannot read properties of null")
       \/ /\ RedisExists(proc[p].user.accessToken, now)
          /\ LET e == RedisGet(proc[p].user.accessToken, now)
                 r == Pair(e.token, e.expiresAt)
             IN  /\ proc' = [proc EXCEPT ![p] =
                                Returned(proc[p].user,
                                         proc[p].user.accessToken, FALSE, r)]
                 /\ prevCall' = [prevCall EXCEPT ![proc[p].user.id] = p]

\* user.updateLastLogin(accessToken) resolves: the save has written the
\* pointer and lastLoginAt.
updateLastLoginKeepsPointer(doc, accessToken, t) ==
    [doc EXCEPT !.lastLoginAt = t]
updateLastLogin(doc, accessToken, t) ==
    [doc EXCEPT !.accessToken = accessToken, !.lastLoginAt = t]

Save(p) ==
    /\ UNCHANGED laterVars
    /\ proc[p].pc = "save"
    /\ UNCHANGED <<now, ticks, issued, verdict, cache, nextHandle, signCalls>>
    /\ \/ /\ Throw(p, proc[p].user.id, "store unavailable")
          /\ UNCHANGED <<account, lastSaver>>
       \/ /\ account' = [account EXCEPT ![proc[p].user.id] =
                            updateLastLogin(@, proc[p].handle, now)]
          /\ lastSaver' = [lastSaver EXCEPT ![proc[p].user.id] = p]
          /\ proc' = [proc EXCEPT ![p].pc = "set"]
          /\ UNCHANGED prevCall

\* The key of the cache write: the handle this request generated.
SetKeyIsPointer(p) == account[proc[p].user.id].accessToken
SetKey(p) == proc[p].handle

\* redisService.set(accessToken, {token, expiresAt}, KEY.expiresIn)
\* resolves; the new pair is returned.
Set(p) ==
    /\ UNCHANGED laterVars
    /\ proc[p].pc = "set"
    /\ UNCHANGED <<now, ticks, issued, verdict, account, nextHandle,
                   signCalls, lastSaver>>
    /\ \/ /\ Throw(p, proc[p].user.id, "cache unavailable")
          /\ UNCHANGED cache
       \/ /\ cache' = [cache EXCEPT ![SetKey(p)] =
                          RedisSet(proc[p].signed, ExpiresIn, now)]
          /\ proc' = [proc EXCEPT ![p] =
                         Returned(proc[p].user, proc[p].handle, TRUE,
                                  proc[p].signed)]
          /\ prevCall' = [prevCall EXCEPT ![proc[p].user.id] = p]

Next ==
    \/ Tick
    \/ \E p \in Procs, request \in Requests : FindOne(p, request)
    \/ \E p \in Procs : Exists(p)
    \/ \E p \in Procs : Get(p)
    \/ \E p \in Procs : Save(p)
    \/ \E p \in Procs : Set(p)

Spec == Init /\ [][Next]_vars

\* One request at a time: a caller that waits for each login to complete
\* before it makes the next.
SeqFindOne(p, request) ==
    /\ \A q \in Procs : ~InFlight(q)
    /\ FindOne(p, request)

NextSeq ==
    \/ Tick
    \/ \E p \in Procs, request \in Requests : SeqFindOne(p, request)
    \/ \E p \in Procs : Exists(p)
    \/ \E p \in Procs : Get(p)
    \/ \E p \in Procs : Save(p)
    \/ \E p \in Procs : Set(p)

SpecSeq == Init /\ [][NextSeq]_vars

NextCodec == CodecTick \/ CodecSign \/ CodecVerify

SpecCodec == Init /\ [][NextCodec]_vars

(***************************************************************************)
(* utils/token: decode, and sign called twice.                             *)
(***************************************************************************)
loginVars == <<account, cache, nextHandle, signCalls, proc, lastSaver,
               prevCall>>

\* jwt.decode(token): null for input that is not three segments with a JSON
\* header, else the payload: an object, or a string when the payload
\* segment is not a JSON object. Nothing is checked against key or clock.
JwtDecode(token) ==
    IF token.form # "jwt" THEN [kind |-> "null", payload |-> NoPayload]
    ELSE [kind |-> token.kind, payload |-> token.claims]

\* decode(token): the payload, or the error thrown.
decodeVerifying(token) == verify(token, now)
decode(token) ==
    LET res == JwtDecode(token)
    IN  IF res.kind = "string" \/ res.kind = "null"
        THEN [ok |-> FALSE, error |-> "CryptoError: decode Invalid token",
              payload |-> NoPayload]
        ELSE [ok |-> TRUE, error |-> "ok", payload |-> res.payload]

CodecDecode ==
    /\ \E token \in Presentable :
          decoded' = [token |-> token, at |-> now, res |-> decode(token)]
    /\ UNCHANGED <<now, ticks, issued, verdict, millis, twice>>
    /\ UNCHANGED <<loginVars, hookRequest, policyVars>>

NextDecode == Tick \/ CodecSign \/ CodecDecode

SpecDecode == Init /\ [][NextDecode]_vars

\* Date.now() in milliseconds, and the Unix second jsonwebtoken and sign
\* make of it: Math.floor(Date.now() / 1000).
DateNow == now * MsPerSecond + millis
UnixSeconds(ms) == ms \div MsPerSecond

\* Time passes: to the next second, or within the second.
SecondTick ==
    /\ ticks < MaxTicks
    /\ now' = now + 1
    /\ ticks' = ticks + 1
    /\ UNCHANGED <<issued, verdict, decoded, millis, twice>>
    /\ UNCHANGED <<loginVars, hookRequest, policyVars>>

MilliTick ==
    /\ millis < MaxMillis
    /\ millis' = millis + 1
    /\ UNCHANGED <<now, ticks, issued, verdict, decoded, twice>>
    /\ UNCHANGED <<loginVars, hookRequest, policyVars>>

\* Payloads signed twice: as the logins build them, and one that carries
\* its own iat (TokenPayload extends JwtPayload).
ResignInputs ==
    {MockPayload, ExtendedPayload, [MockPayload EXCEPT !.iat = StartTime]}

SignedNow(payload) ==
    [at |-> DateNow,
     out |-> sign(payload, UnixSeconds(DateNow), UnixSeconds(DateNow))]

SignFirst ==
    /\ \E p \in ResignInputs :
          twice' = [payload |-> p, first |-> SignedNow(p), second |-> NoSigned]
    /\ UNCHANGED <<now, ticks, issued, verdict, decoded, millis>>
    /\ UNCHANGED <<loginVars, hookRequest, policyVars>>

SignSecond ==
    /\ twice.first.at # NoNum
    /\ twice.second.at = NoNum
    /\ twice' = [twice EXCEPT !.second = SignedNow(twice.payload)]
    /\ UNCHANGED <<now, ticks, issued, verdict, decoded, millis>>
    /\ UNCHANGED <<loginVars, hookRequest, policyVars>>

NextResign == SecondTick \/ MilliTick \/ SignFirst \/ SignSecond

SpecResign == Init /\ [][NextResign]_vars

(***************************************************************************)
(* middleware/auth: the preHandler hook that authenticates a request. Two  *)
(* revisions of it differ in how they build the error: "publicRoutes"      *)
(* (the list of public prefixes comes from KEY.publicRoutes) and "i18n"    *)
(* (the list is written out, the messages are translated).                 *)
(***************************************************************************)
Revisions == {"publicRoutes", "i18n"}

\* s.startsWith(prefix)
StartsWith(s, prefix) ==
    /\ Len(prefix) <= Len(s)
    /\ SubSeq(s, 1, Len(prefix)) = prefix

\* The prefixes that need no authentication.
PublicRoutes ==
    { <<"/v1", "/auth", "/login">>, <<"/v1", "/auth", "/register">>,
      <<"/health">>, <<"/docs">> }

\* request.url: the path and the query string.
Urls ==
    { <<"/v1", "/auth", "/login">>,
      <<"/v1", "/auth", "/login", "?next=/v1/users">>,
      <<"/health", "z">>,
      <<"/v1", "/auth">>,
      <<"/v1", "/users">>,
      <<"/api", "/v1", "/auth", "/login">> }

isPublicRouteExact(url) == url \in PublicRoutes
isPublicRoute(url) == \E route \in PublicRoutes : StartsWith(url, route)

\* Tokens a client may hold: issued by sign when the service started, and
\* what can be made of those or crafted at the time of the request.
HeldTokens ==
    LET held == {sign(p, StartTime, StartTime).token : p \in PlainPayloads}
    IN  held \cup Tampered(sign(MockPayload, StartTime, StartTime).token)
             \cup Crafted(MockPayload, now)

\* request.headers.authorization: undefined, or a string, given by what
\* comes before its eighth character and what follows.
Headers ==
    {NoHeader, [prefix |-> "", rest |-> NoToken]}
       \cup {[prefix |-> x, rest |-> MalformedToken] :
                x \in {"Basic ", "bearer ", "Token: "}}
       \cup {[prefix |-> "Bearer ", rest |-> token] : token \in HeldTokens}

\* !value for a string or undefined
Falsy(value) == value = Absent \/ value = ""
HeaderMissing(header) == Falsy(header.prefix) /\ header.rest.form = "empty"
HeaderIsBearer(header) == header.prefix = "Bearer "
\* authHeader.substring(7)
BearerToken(header) == header.rest

\* The name and the message of the error jwt.verify throws.
ErrorName(err) ==
    IF err = "TokenExpiredError: jwt expired" THEN "TokenExpiredError"
    ELSE IF err = "NotBeforeError: jwt not active" THEN "NotBeforeError"
    ELSE IF err = "ok" THEN "none"
    ELSE "JsonWebTokenError"

ErrorMessage(err) ==
    CASE err = "TokenExpiredError: jwt expired" -> "jwt expired"
      [] err = "NotBeforeError: jwt not active" -> "jwt not active"
      [] err = "JsonWebTokenError: jwt must be provided" -> "jwt must be provided"
      [] err = "JsonWebTokenError: jwt malformed" -> "jwt malformed"
      [] err = "JsonWebTokenError: invalid signature" -> "invalid signature"
      [] OTHER -> err

\* ErrorFactory.authentication(message, code): AuthenticationError, 401.
\* (the default message is the Chinese for "authentication failed")
DefaultAuthMessage == "authentication failed"
DefaultAuthCode == "AUTHENTICATION_ERROR"
AuthenticationError(message, code) ==
    [statusCode |-> 401,
     code |-> IF code = Absent THEN DefaultAuthCode ELSE code,
     message |-> IF message = Absent THEN DefaultAuthMessage ELSE message]

\* The error of the checks made before the token is verified.
BeforeVerifyError(rev, key, code) ==
    IF rev = "i18n" THEN AuthenticationError(key, code)
    ELSE AuthenticationError(code, Absent)

\* The error the catch block throws for what the try block threw: err is
\* the jwt.verify error or the hook's own TOKEN_INFO_INCOMPLETE.
CatchError(rev, name, message) ==
    IF rev = "i18n"
    THEN AuthenticationError(
            IF name = "TokenExpiredError" THEN "auth.token_expired"
            ELSE IF name = "JsonWebTokenError" THEN "auth.token_format_error"
            ELSE IF name = "NotBeforeError" THEN "auth.token_not_active"
            ELSE "auth.token_verification_failed",
            "TOKEN_VERIFICATION_FAILED")
    ELSE AuthenticationError("auth.token_verification_failed", message)

\* jwt.verify(token, KEY.secretKey): no options are passed.
HookVerifyError(token, t) == JwtVerifyError(token, SecretKey, NoOptions, t)

\* request.user as the hook builds it from the decoded payload; the
\* payload has `role`, not `roles`.
Identity(claims) ==
    [id |-> claims.id, username |-> claims.username, email |-> claims.email,
     roles |-> <<>>, claims |-> claims]

Rejected(req, error) == [req EXCEPT !.outcome = "rejected", !.error = error]

\* The preHandler hook on one request at clock t.
preHandler(rev, url, header, t) ==
    LET req == [NoRequest EXCEPT !.rev = rev, !.url = url,
                                 !.header = header, !.at = t]
        token == BearerToken(header)
        err == HookVerifyError(token, t)
    IN  IF isPublicRoute(url) THEN [req EXCEPT !.outcome = "skipped"]
        ELSE IF HeaderMissing(header)
           THEN Rejected(req, BeforeVerifyError(rev, "auth.missing_auth_token",
                                                "MISSING_AUTH_TOKEN"))
        ELSE IF ~HeaderIsBearer(header)
           THEN Rejected(req, BeforeVerifyError(rev,
                                 "auth.invalid_auth_token_format",
                                 "INVALID_AUTH_TOKEN_FORMAT"))
        ELSE IF token.form = "empty"
           THEN Rejected(req, BeforeVerifyError(rev, "auth.empty_auth_token",
                                                "EMPTY_AUTH_TOKEN"))
        ELSE IF err # "ok"
           THEN Rejected(req, CatchError(rev, ErrorName(err), ErrorMessage(err)))
        ELSE IF token.kind = "string" \/ Falsy(token.claims.id)
                  \/ Falsy(token.claims.username)
           THEN Rejected(req, CatchError(rev, "AuthenticationError",
                    IF rev = "i18n" THEN "auth.token_info_incomplete"
                                    ELSE "TOKEN_INFO_INCOMPLETE"))
        ELSE [req EXCEPT !.outcome = "proceeded",
                         !.user = Identity(token.claims)]

PreHandler ==
    /\ \E rev \in Revisions, url \in Urls, header \in Headers :
          hookRequest' = preHandler(rev, url, header, now)
    /\ UNCHANGED <<now, ticks, issued, verdict, decoded, millis, twice>>
    /\ UNCHANGED <<loginVars, policyVars>>

NextAuth == Tick \/ PreHandler

SpecAuth == Init /\ [][NextAuth]_vars

(***************************************************************************)
(* config/casbin: ORMManager, the policy enforcer. The casbin model file   *)
(* (model.conf: request and policy shape, matcher, effect) is read at run  *)
(* time from the working directory; its evaluation is Enforce below.       *)
(***************************************************************************)
Wildcard == "*"
Rule(sub, obj, act, env, eft) ==
    [sub |-> sub, obj |-> obj, act |-> act, env |-> env, eft |-> eft]
Context(sub, obj, act, env) ==
    [sub |-> sub, obj |-> obj, act |-> act, env |-> env, eft |-> Absent]

\* A pattern matches a value when it is the value or the wildcard.
PatternMatches(pattern, value) == pattern = Wildcard \/ pattern = value
Matches(rule, context) ==
    /\ PatternMatches(rule.sub, context.sub)
    /\ PatternMatches(rule.obj, context.obj)
    /\ PatternMatches(rule.act, context.act)
    /\ PatternMatches(rule.env, context.env)

\* enforcer.enforce(sub, obj, act, env, eft): allow if at least one matching
\* rule has effect allow; no match is a denial.
Enforce(rules, context) ==
    \E i \in DOMAIN rules :
       rules[i].eft = "allow" /\ Matches(rules[i], context)

\* The rules that are added and removed, and the contexts that are checked.
RuleUniverse ==
    { Rule("alice", "orders", "read", "prod", "allow"),
      Rule("alice", "orders", Wildcard, Wildcard, "deny"),
      Rule(Wildcard, "orders", "read", "development", "allow"),
      Rule("alice", Wildcard, "delete", Wildcard, "allow") }
Contexts ==
    { Context(sub, "orders", act, env) :
         sub \in {"alice", "bob"}, act \in {"read", "delete"},
         env \in {"prod", "development"} }

\* ErrorFactory.configuration and ErrorFactory.authorization.
ConfigurationError(message, code) ==
    [name |-> "ConfigurationError", statusCode |-> 500,
     code |-> IF code = Absent THEN "CONFIGURATION_ERROR" ELSE code,
     message |-> message]
AuthorizationError(message, code) ==
    [name |-> "AuthorizationError", statusCode |-> 403,
     code |-> IF code = Absent THEN "AUTHORIZATION_ERROR" ELSE code,
     message |-> message]

\* initialize(): the enforcer is made from the model file and the adapter.
\* A failure throws and leaves the manager as it was.
Initialize ==
    /\ UNCHANGED abac
    /\ enforcer = "none"
    /\ enforcer' = "ready"
    /\ UNCHANGED <<policy, checked, gate>>
    /\ UNCHANGED <<now, ticks, issued, verdict, decoded, millis, twice,
                   hookRequest>>
    /\ UNCHANGED loginVars

\* checkPermission(context). enforceThrows: the enforcer fails on this call.
Returned5(context, allowed, enforced) ==
    [NoCheck EXCEPT !.called = TRUE, !.context = context,
                    !.allowed = allowed, !.enforced = enforced]
NotInitialized(context) ==
    [NoCheck EXCEPT !.called = TRUE, !.context = context, !.thrown = TRUE,
                    !.error = ConfigurationError("Enforcer not initialized",
                                                 Absent)]

checkPermissionFailOpen(enf, rules, context, enforceThrows) ==
    IF enf = "none" THEN NotInitialized(context)
    ELSE IF enforceThrows THEN Returned5(context, TRUE, FALSE)
    ELSE Returned5(context, Enforce(rules, context), TRUE)
checkPermissionSwapped(enf, rules, context, enforceThrows) ==
    IF enf = "none" THEN NotInitialized(context)
    ELSE IF enforceThrows THEN Returned5(context, FALSE, FALSE)
    ELSE Returned5(context,
                   Enforce(rules, [context EXCEPT !.sub = context.obj,
                                                  !.obj = context.sub]),
                   TRUE)
checkPermissionIgnoresResult(enf, rules, context, enforceThrows) ==
    IF enf = "none" THEN NotInitialized(context)
    ELSE IF enforceThrows THEN Returned5(context, FALSE, FALSE)
    ELSE Returned5(context, TRUE, TRUE)
checkPermission(enf, rules, context, enforceThrows) ==
    IF enf = "none" THEN NotInitialized(context)
    ELSE IF enforceThrows THEN Returned5(context, FALSE, FALSE)
    ELSE Returned5(context, Enforce(rules, context), TRUE)

CheckPermission ==
    /\ UNCHANGED abac
    /\ \E context \in Contexts, enforceThrows \in BOOLEAN :
          checked' = checkPermission(enforcer, policy, context, enforceThrows)
    /\ UNCHANGED <<enforcer, policy, gate>>
    /\ UNCHANGED <<now, ticks, issued, verdict, decoded, millis, twice,
                   hookRequest>>
    /\ UNCHANGED loginVars

\* addPolicy(rule) and removePolicy(rule): without an enforcer they throw;
\* adding a rule that is there, or removing one that is not, changes nothing.
\* checked, gate and abac record the last call made against the current
\* rules, so a change of the rules clears them.
Has(rules, rule) == \E i \in DOMAIN rules : rules[i] = rule
Without(rules, rule) == SelectSeq(rules, LAMBDA r : r # rule)

AddPolicy(rule) ==
    /\ abac' = NoAbac
    /\ enforcer = "ready"
    /\ ~Has(policy, rule)
    /\ Len(policy) < MaxRules
    /\ policy' = Append(policy, rule)
    /\ checked' = NoCheck
    /\ gate' = NoGate
    /\ UNCHANGED enforcer
    /\ UNCHANGED <<now, ticks, issued, verdict, decoded, millis, twice,
                   hookRequest>>
    /\ UNCHANGED loginVars

RemovePolicy(rule) ==
    /\ abac' = NoAbac
    /\ enforcer = "ready"
    /\ Has(policy, rule)
    /\ policy' = Without(policy, rule)
    /\ checked' = NoCheck
    /\ gate' = NoGate
    /\ UNCHANGED enforcer
    /\ UNCHANGED <<now, ticks, issued, verdict, decoded, millis, twice,
                   hookRequest>>
    /\ UNCHANGED loginVars

NextPolicy ==
    \/ Initialize
    \/ CheckPermission
    \/ \E rule \in RuleUniverse : AddPolicy(rule)
    \/ \E rule \in RuleUniverse : RemovePolicy(rule)

SpecPolicy == Init /\ [][NextPolicy]_vars

(***************************************************************************)
(* config/casbin: createOnRequestHook, the authorization hook.  A url is   *)
(* a string, written as the sequence of its pieces: "/", "?" and the text  *)
(* between them; request.user is what the authentication hook attached,    *)
(* if it ran.                                                              *)
(***************************************************************************)
ApiVersion == "v1"
NodeEnv == "development"

GateUrls ==
    { <<"/">>,
      <<"/", "health">>,
      <<"/", "orders">>,
      <<"/", "v1">>,
      <<"/", "v1", "/", "orders">>,
      <<"/", "v1", "/", "orders", "/", "42", "?", "x=1">>,
      <<"/", "/", "or", "ders", "?", "v1", "/", "x">> }
\* request.method, a string written letter by letter. MethodNames are the
\* methods a context is extracted for, Methods those sent through the hook.
MethodNames ==
    { <<"G", "E", "T">>, <<"g", "e", "t">>, <<"P", "O", "S", "T">>,
      <<"P", "U", "T">>, <<"P", "A", "T", "C", "H">>,
      <<"p", "a", "t", "c", "h">>, <<"D", "E", "L", "E", "T", "E">>,
      <<"D", "e", "l", "e", "t", "e">>,
      <<"O", "P", "T", "I", "O", "N", "S">>, <<"H", "e", "a", "d">> }
Methods ==
    { <<"G", "E", "T">>, <<"P", "O", "S", "T">>,
      <<"D", "E", "L", "E", "T", "E">> }
UserIds == {Absent, "alice", "bob"}
SkipPaths == { {}, {<<"/", "health">>} }
SkipMethods == { {}, {<<"P", "O", "S", "T">>} }

\* The text of a run of pieces.
RECURSIVE Join(_)
Join(pieces) ==
    IF pieces = <<>> THEN "" ELSE pieces[1] \o Join(Tail(pieces))

\* url.split("?")[0]: what comes before the first "?".
BeforeQuery(url) ==
    LET marks == {i \in DOMAIN url : url[i] = "?"}
    IN  IF marks = {} THEN url
        ELSE SubSeq(url, 1, (CHOOSE i \in marks : \A j \in marks : i <= j) - 1)

\* path.split("/"): the texts between the slashes, empty ones included.
RECURSIVE SplitSlash(_)
SplitSlash(path) ==
    LET marks == {i \in DOMAIN path : path[i] = "/"}
    IN  IF marks = {} THEN <<Join(path)>>
        ELSE LET first == CHOOSE i \in marks : \A j \in marks : i <= j
             IN  <<Join(SubSeq(path, 1, first - 1))>>
                 \o SplitSlash(SubSeq(path, first + 1, Len(path)))

\* extractResourceFromPath(url), skipping the version segment wherever it
\* leads, also when nothing follows it.
extractResourceSkipsVersion(url) ==
    LET segments == SelectSeq(SplitSlash(BeforeQuery(url)),
                              LAMBDA segment : segment # "")
        rest == IF Len(segments) > 0 /\ segments[1] = ApiVersion
                THEN Tail(segments) ELSE segments
    IN  IF Len(rest) = 0 THEN "root" ELSE rest[1]

\* extractResourceFromPath(url): the query string is dropped, empty
\* segments are filtered out.
extractResourceFromPath(url) ==
    LET segments == SelectSeq(SplitSlash(BeforeQuery(url)),
                              LAMBDA segment : segment # "")
    IN  IF Len(segments) = 0 THEN "root"
        ELSE IF segments[1] = ApiVersion /\ Len(segments) > 1
             THEN segments[2]
        ELSE segments[1]

\* String.prototype.toUpperCase and toLowerCase, letter by letter.
UpperLetters ==
    <<"A", "C", "D", "E", "G", "H", "I", "L", "N", "O", "P", "S", "T", "U">>
LowerLetters ==
    <<"a", "c", "d", "e", "g", "h", "i", "l", "n", "o", "p", "s", "t", "u">>
Recase(letter, from, to) ==
    IF \E i \in DOMAIN from : from[i] = letter
    THEN to[CHOOSE i \in DOMAIN from : from[i] = letter]
    ELSE letter
toUpperCase(s) ==
    Join([i \in DOMAIN s |-> Recase(s[i], LowerLetters, UpperLetters)])
toLowerCase(s) ==
    Join([i \in DOMAIN s |-> Recase(s[i], UpperLetters, LowerLetters)])

\* methodMap[key], undefined for a key the map does not have.
methodMap(key) ==
    CASE key = "GET" -> "read"
      [] key = "POST" -> "create"
      [] key \in {"PUT", "PATCH"} -> "update"
      [] key = "DELETE" -> "delete"
      [] OTHER -> Absent

\* extractActionFromMethod(method), looking the method up as it was sent.
extractActionCaseSensitive(method) ==
    IF methodMap(Join(method)) # Absent THEN methodMap(Join(method))
    ELSE IF toLowerCase(method) # "" THEN toLowerCase(method)
    ELSE "unknown"

\* extractActionFromMethod(method):
\* methodMap[method.toUpperCase()] || method.toLowerCase() || "unknown".
extractActionFromMethod(method) ==
    IF methodMap(toUpperCase(method)) # Absent
    THEN methodMap(toUpperCase(method))
    ELSE IF toLowerCase(method) # "" THEN toLowerCase(method)
    ELSE "unknown"

\* extractContext(request): a request without a user is "anonymous".
extractContext(url, method, userId) ==
    Context(IF userId = Absent THEN "anonymous" ELSE userId,
            extractResourceFromPath(url),
            extractActionFromMethod(method),
            NodeEnv)

\* The request goes on to its handler; context and result are attached
\* unless the path or the method was skipped.
Proceeded(req, context, result) ==
    [req EXCEPT !.outcome = "proceeded", !.casbinContext = context,
                !.result = result]
\* The hook throws: the request is rejected with the error.
GateRejected(req, error) ==
    [req EXCEPT !.outcome = "rejected", !.error = error]
\* The catch block of the hook: whatever was thrown inside the try is
\* rethrown as a configuration error whose code is the message caught.
GateCatch(req, caught) ==
    GateRejected(req, ConfigurationError("Casbin permission check failed",
                                         caught.message))

\* The hook returned by createOnRequestHook({skipPaths, skipMethods}).
\* The throw of the authorization error is inside the try block.
onRequest(skipPaths, skipMethods, url, method, userId, enforceThrows) ==
    LET req == [NoGate EXCEPT !.called = TRUE, !.url = url,
                              !.method = method, !.userId = userId]
        context == extractContext(url, method, userId)
        result == checkPermission(enforcer, policy, context, enforceThrows)
    IN  IF \E skipped \in skipPaths : StartsWith(url, skipped)
        THEN Proceeded(req, NoContext, NoCheck)
        ELSE IF method \in skipMethods
        THEN Proceeded(req, NoContext, NoCheck)
        ELSE IF result.thrown
        THEN GateCatch(req, result.error)
        ELSE IF ~result.allowed
        THEN GateCatch(req, AuthorizationError("Access Denied", Absent))
        ELSE Proceeded(req, context, result)

OnRequest ==
    /\ UNCHANGED abac
    /\ \E skipPaths \in SkipPaths, skipMethods \in SkipMethods,
          url \in GateUrls, method \in Methods, userId \in UserIds,
          enforceThrows \in BOOLEAN :
          gate' = onRequest(skipPaths, skipMethods, url, method, userId,
                            enforceThrows)
    /\ UNCHANGED <<enforcer, policy, checked>>
    /\ UNCHANGED <<now, ticks, issued, verdict, decoded, millis, twice,
                   hookRequest>>
    /\ UNCHANGED loginVars

\* ormManager.extractContext(request) on its own.
ExtractContext ==
    /\ UNCHANGED abac
    /\ \E url \in GateUrls, method \in MethodNames, userId \in UserIds :
          gate' = [NoGate EXCEPT !.called = TRUE, !.url = url,
                                 !.method = method, !.userId = userId,
                                 !.casbinContext =
                                     extractContext(url, method, userId)]
    /\ UNCHANGED <<enforcer, policy, checked>>
    /\ UNCHANGED <<now, ticks, issued, verdict, decoded, millis, twice,
                   hookRequest>>
    /\ UNCHANGED loginVars

NextContext == ExtractContext

SpecContext == Init /\ [][NextContext]_vars

NextGate ==
    \/ Initialize
    \/ OnRequest
    \/ \E rule \in RuleUniverse : AddPolicy(rule)
    \/ \E rule \in RuleUniverse : RemovePolicy(rule)

SpecGate == Init /\ [][NextGate]_vars

(***************************************************************************)
(* config/casbin: initializeORMManager, run once at every process start.   *)
(* The rules live in the adapter's database and outlive the process; the   *)
(* enforcer does not.                                                      *)
(***************************************************************************)
\* ABAC_INIT_DATA.policies (two of them) and ABAC_INIT_DATA.defaultPolicy.
BootstrapPolicies ==
    << Rule("guest", "api_docs", "read", Wildcard, "allow"),
       Rule("user", "user_delete", "delete", Wildcard, "deny") >>
DefaultPolicy ==
    [sub |-> "super", obj |-> Wildcard, act |-> Wildcard, env |-> Wildcard,
     eft |-> Wildcard]

\* What `!` sees in what checkPermission resolves to: a PermissionResult
\* object, whatever its allowed field holds, is truthy.
Truthy(result) == TRUE

\* enforcer.addPolicies(rules): the rules are appended.
addPolicies(rules, added) == rules \o added

\* initializeORMManager(). initFails: initialize() throws (model file or
\* adapter), and nothing else runs. enforceThrows: as in checkPermission.
InitializeORMManager ==
    /\ UNCHANGED abac
    /\ \E initFails \in BOOLEAN, enforceThrows \in BOOLEAN :
          IF enforcer = "none" /\ initFails
          THEN UNCHANGED <<enforcer, policy, checked>>
          ELSE LET result == checkPermission("ready", policy, DefaultPolicy,
                                             enforceThrows)
               IN  /\ enforcer' = "ready"
                   /\ checked' = result
                   /\ policy' = IF ~Truthy(result)
                                THEN addPolicies(policy, BootstrapPolicies)
                                ELSE policy
    /\ UNCHANGED gate
    /\ UNCHANGED <<now, ticks, issued, verdict, decoded, millis, twice,
                   hookRequest>>
    /\ UNCHANGED loginVars

\* The process ends and a new one starts: a new ORMManager, the same store.
Restart ==
    /\ abac' = NoAbac
    /\ enforcer = "ready"
    /\ enforcer' = "none"
    /\ checked' = NoCheck
    /\ gate' = NoGate
    /\ UNCHANGED policy
    /\ UNCHANGED <<now, ticks, issued, verdict, decoded, millis, twice,
                   hookRequest>>
    /\ UNCHANGED loginVars

NextSeed ==
    \/ InitializeORMManager
    \/ Restart
    \/ CheckPermission
    \/ \E rule \in RuleUniverse : AddPolicy(rule)
    \/ \E rule \in RuleUniverse : RemovePolicy(rule)

SpecSeed == Init /\ [][NextSeed]_vars

(***************************************************************************)
(* service/auth.service: resetPassword.                                    *)
(***************************************************************************)
DefaultPassword == "123456"
NewPasswords == {Absent, "pw-new"}

\* RedisService.del(key).
RedisDel(key) ==
    IF key \in Handles THEN [cache EXCEPT ![key] = NoEntry] ELSE cache

\* The key resetPassword tests and deletes: user.accessToken, read after it
\* was set to "".
ResetKey(doc) == NoHandle

\* resetPassword(id, newPassword) on the document read by findById: the
\* pointer is cleared, the password is newPassword or the default one, and
\* the document is saved.
resetPassword(doc, newPassword) ==
    [doc EXCEPT !.accessToken = NoHandle,
                !.password = IF Falsy(newPassword) THEN DefaultPassword
                             ELSE newPassword]

\* AuthService.resetPassword(id, newPassword). An unknown id, or a store or
\* cache that fails, throws and writes nothing.
ResetPassword(id, newPassword) ==
    /\ id \in Accounts
    /\ LET user == account[id]
       IN  /\ cache' = IF user.accessToken # NoHandle
                          /\ RedisExists(ResetKey(user), now)
                       THEN RedisDel(ResetKey(user))
                       ELSE cache
           /\ account' = [account EXCEPT ![id] =
                             resetPassword(user, newPassword)]
    /\ UNCHANGED <<nextHandle, signCalls, proc, lastSaver, prevCall>>
    /\ UNCHANGED <<now, ticks, issued, verdict>>
    /\ UNCHANGED laterVars

\* One request at a time, as in SpecSeq.
SeqResetPassword(id, newPassword) ==
    /\ \A q \in Procs : ~InFlight(q)
    /\ ResetPassword(id, newPassword)

NextReset ==
    \/ Tick
    \/ \E p \in Procs, request \in Requests : SeqFindOne(p, request)
    \/ \E p \in Procs : Exists(p)
    \/ \E p \in Procs : Get(p)
    \/ \E p \in Procs : Save(p)
    \/ \E p \in Procs : Set(p)
    \/ \E id \in Accounts, newPassword \in NewPasswords :
          SeqResetPassword(id, newPassword)

SpecReset == Init /\ [][NextReset]_vars

(***************************************************************************)
(* model/mongo/account: addRole and removeRole, between and during logins. *)
(***************************************************************************)
RoleCodes == {"auditor"}

\* accountSchema.methods.addRole(roleCode) and removeRole(roleCode): the
\* fields of the document that the save writes.
addRole(doc, roleCode) ==
    IF \E i \in DOMAIN doc.roles : doc.roles[i] = roleCode
    THEN doc
    ELSE [doc EXCEPT !.roles = Append(@, roleCode)]
removeRole(doc, roleCode) ==
    [doc EXCEPT !.roles = SelectSeq(@, LAMBDA role : role # roleCode)]

AddRole(id, roleCode) ==
    /\ account' = [account EXCEPT ![id] = addRole(@, roleCode)]
    /\ account' # account
    /\ UNCHANGED <<cache, nextHandle, signCalls, proc, lastSaver, prevCall>>
    /\ UNCHANGED <<now, ticks, issued, verdict>>
    /\ UNCHANGED laterVars

RemoveRole(id, roleCode) ==
    /\ account' = [account EXCEPT ![id] = removeRole(@, roleCode)]
    /\ account' # account
    /\ UNCHANGED <<cache, nextHandle, signCalls, proc, lastSaver, prevCall>>
    /\ UNCHANGED <<now, ticks, issued, verdict>>
    /\ UNCHANGED laterVars

NextRoles ==
    \/ Tick
    \/ \E p \in Procs, request \in Requests : SeqFindOne(p, request)
    \/ \E p \in Procs : Exists(p)
    \/ \E p \in Procs : Get(p)
    \/ \E p \in Procs : Save(p)
    \/ \E p \in Procs : Set(p)
    \/ \E id \in Accounts, roleCode \in RoleCodes : AddRole(id, roleCode)
    \/ \E id \in Accounts, roleCode \in RoleCodes : RemoveRole(id, roleCode)

SpecRoles == Init /\ [][NextRoles]_vars

(***************************************************************************)
(* service/abac.service: AbacService, the business front of the enforcer.  *)
(***************************************************************************)
AbacCall(resource, action, accountName, env, eft) ==
    [resource |-> resource, action |-> action, account |-> accountName,
     env |-> env, eft |-> eft]
AbacCalls ==
    { AbacCall("orders", "read", "alice", "prod", "allow"),
      AbacCall("orders", "read", "bob", "prod", "allow"),
      AbacCall("orders", "read", "alice", Absent, "allow"),
      AbacCall(Wildcard, Wildcard, Wildcard, "prod", "allow") }

\* The array addPolicy and deletePolicy hand to the manager: resource,
\* action, account, then env and eft when they are given.
AbacFields(call) ==
    <<call.resource, call.action, call.account>>
       \o (IF Falsy(call.env) THEN <<>> ELSE <<call.env>>)
       \o (IF Falsy(call.eft) THEN <<>> ELSE <<call.eft>>)

\* enforcer.addPolicy(...rule): the fields are sub, obj, act, env, eft by
\* position.
Field(fields, i) == IF i <= Len(fields) THEN fields[i] ELSE Absent
RuleOfFields(fields) ==
    Rule(Field(fields, 1), Field(fields, 2), Field(fields, 3),
         Field(fields, 4), Field(fields, 5))

\* The contexts checkPermission and getPermission build.
AbacCheckContext(call) ==
    Context(call.account, call.resource, call.action,
            IF Falsy(call.env) THEN "" ELSE call.env)
AbacGetContext(call) ==
    [sub |-> call.account, obj |-> call.resource, act |-> call.action,
     env |-> call.env, eft |-> call.eft]

Called(op, call) ==
    [NoAbac EXCEPT !.op = op, !.resource = call.resource,
                   !.action = call.action, !.account = call.account,
                   !.env = call.env, !.eft = call.eft]

\* AbacService.checkPermission: `permission ? true : false`.
abacCheckPermission(call, enforceThrows) ==
    LET permission == checkPermission(enforcer, policy,
                                      AbacCheckContext(call), enforceThrows)
    IN  IF permission.thrown
        THEN [Called("checkPermission", call) EXCEPT !.thrown = TRUE]
        ELSE [Called("checkPermission", call) EXCEPT
                 !.returned = Truthy(permission),
                 !.permission = permission]

\* AbacService.getPermission: the PermissionResult itself.
abacGetPermission(call, enforceThrows) ==
    LET permission == checkPermission(enforcer, policy,
                                      AbacGetContext(call), enforceThrows)
    IN  IF permission.thrown
        THEN [Called("getPermission", call) EXCEPT !.thrown = TRUE]
        ELSE [Called("getPermission", call) EXCEPT
                 !.returned = TRUE, !.permission = permission]

AbacCheckPermission ==
    /\ \E call \in AbacCalls, enforceThrows \in BOOLEAN :
          abac' = abacCheckPermission(call, enforceThrows)
    /\ UNCHANGED <<enforcer, policy, checked, gate>>
    /\ UNCHANGED <<now, ticks, issued, verdict, decoded, millis, twice,
                   hookRequest>>
    /\ UNCHANGED loginVars

AbacGetPermission ==
    /\ \E call \in AbacCalls, eft \in {Absent, "allow"},
          enforceThrows \in BOOLEAN :
          abac' = abacGetPermission([call EXCEPT !.eft = eft], enforceThrows)
    /\ UNCHANGED <<enforcer, policy, checked, gate>>
    /\ UNCHANGED <<now, ticks, issued, verdict, decoded, millis, twice,
                   hookRequest>>
    /\ UNCHANGED loginVars

\* AbacService.addPolicy and deletePolicy.
AbacAddPolicy(call) == AddPolicy(RuleOfFields(AbacFields(call)))
AbacDeletePolicy(call) == RemovePolicy(RuleOfFields(AbacFields(call)))

NextAbac ==
    \/ Initialize
    \/ AbacCheckPermission
    \/ AbacGetPermission
    \/ \E call \in AbacCalls : AbacAddPolicy(call)
    \/ \E call \in AbacCalls : AbacDeletePolicy(call)

SpecAbac == Init /\ [][NextAbac]_vars

(***************************************************************************)
(* service/wechat.service: wechatLogin for an account that is already      *)
(* bound to the WeChat identity (the profile lookup finds it).             *)
(***************************************************************************)
\* WechatService.wechatLogin(request): the account of the profile is read
\* (Account.findById), a handle is generated and the credential signed;
\* updateLastLogin and redisService.set are the awaits that follow, as in
\* login. A session exchange or a lookup that fails throws.
WechatLogin(p, name) ==
    /\ ~InFlight(p)
    /\ UNCHANGED laterVars
    /\ UNCHANGED <<now, ticks, issued, verdict>>
    /\ \/ /\ Throw(p, name, "store unavailable")
          /\ UNCHANGED <<account, cache, nextHandle, signCalls, lastSaver>>
       \/ /\ name \in Accounts
          /\ Mint(p, Snapshot(account[name]))

\* One request at a time, as in SpecSeq.
SeqWechatLogin(p, name) ==
    /\ \A q \in Procs : ~InFlight(q)
    /\ WechatLogin(p, name)

NextWechat ==
    \/ Tick
    \/ \E p \in Procs, request \in Requests : SeqFindOne(p, request)
    \/ \E p \in Procs, name \in Accounts : SeqWechatLogin(p, name)
    \/ \E p \in Procs : Exists(p)
    \/ \E p \in Procs : Get(p)
    \/ \E p \in Procs : Save(p)
    \/ \E p \in Procs : Set(p)

SpecWechat == Init /\ [][NextWechat]_vars

(***************************************************************************)
(* Properties.                                                             *)
(***************************************************************************)
\* The lifetime in seconds that sign adds to the clock to make expiresAt.
LifetimeSeconds == ExpiresIn \div MsPerSecond

PairOf(entry) == Pair(entry.token, entry.expiresAt)
Written(h) == cache[h].setAt # NoNum
Completes(p) == proc[p].pc # "done" /\ proc'[p].pc = "done"

\* C1 (under SpecSeq, one login at a time): when a login of an account
\* returns and the account's previous login call returned too, the two
\* return the same token and the same expiresAt if the entry the previous
\* call returned from is still in the cache, and different tokens if that
\* entry has expired.
C1_SequentialReuse ==
    [][\A p \in Procs :
          Completes(p) =>
             LET a == proc'[p].user.id
                 q == prevCall[a]
             IN  (q # NoCall /\ q # p) =>
                    /\ Live(cache[proc[q].handle], now)
                          => proc'[p].ret = proc[q].ret
                    /\ ~Live(cache[proc[q].handle], now)
                          => proc'[p].ret.token # proc[q].ret.token]_vars

\* A second login has returned the pair the first minted, and after the
\* entry expired a third login has minted a different token.
C1_Witness ==
    /\ proc[1].pc = "done" /\ proc[1].minted
    /\ proc[2].pc = "done" /\ ~proc[2].minted
    /\ prevCall["acc1"] = 1
    /\ Written(proc[2].handle) /\ ~Live(cache[proc[2].handle], now)
    /\ proc[2].ret = PairOf(cache[proc[2].handle])
    /\ proc[1].ret.token # proc[2].ret.token

\* C2: every cache entry written by login has a time-to-live equal to the
\* lifetime of the credential it holds, expiresAt minus the instant of
\* signing, so that it is gone at expiresAt.
C2_TtlIsCredentialLifetime ==
    \A h \in Handles :
       Written(h) =>
          /\ cache[h].ttl = cache[h].expiresAt - cache[h].token.claims.iat
          /\ ~Live(cache[h], cache[h].setAt + LifetimeSeconds)

\* C3: when two logins of one account have both minted and returned, their
\* handles differ, the account's pointer is the handle of the one whose
\* pointer update ran last, and each one's cache entry holds the pair it
\* returned, from its own write until its own time-to-live has run out.
C3_RacingMints ==
    \A p, q \in Procs :
       ( /\ p # q
         /\ proc[p].pc = "done" /\ proc[p].minted
         /\ proc[q].pc = "done" /\ proc[q].minted
         /\ proc[p].user.id = proc[q].user.id ) =>
          LET a == proc[p].user.id
          IN  /\ proc[p].handle # proc[q].handle
              /\ lastSaver[a] \in {p, q}
              /\ account[a].accessToken = proc[lastSaver[a]].handle
              /\ \A r \in {p, q} :
                    /\ Written(proc[r].handle)
                    /\ PairOf(cache[proc[r].handle]) = proc[r].ret
                    /\ Live(cache[proc[r].handle], now)
                          <=> now < cache[proc[r].handle].setAt
                                    + cache[proc[r].handle].ttl

\* Both logins ran within the same second, so neither entry had expired:
\* the second minted only because it looked before the first had written.
C3_Witness ==
    /\ ticks = 0
    /\ proc[1].pc = "done" /\ proc[1].minted
    /\ proc[2].pc = "done" /\ proc[2].minted
    /\ lastSaver["acc1"] = 2
    /\ account["acc1"].accessToken = proc[2].handle
    /\ Live(cache[proc[1].handle], now)
    /\ Live(cache[proc[2].handle], now)

\* C4: every step of a login on the reuse path (the pointer is non-empty
\* and the entry exists) leaves the accounts, the cache, the handles and
\* the count of sign calls as they were, and the login returns the pair
\* stored under the pointer.
OnReusePath(p) ==
    \/ ~InFlight(p) /\ proc'[p].pc = "exists"
    \/ proc[p].pc = "exists" /\ proc'[p].pc = "get"
    \/ proc[p].pc = "get" /\ proc'[p] # proc[p]

C4_ReuseChangesNothing ==
    [][\A p \in Procs :
          OnReusePath(p) =>
             /\ account' = account
             /\ cache' = cache
             /\ signCalls' = signCalls
             /\ nextHandle' = nextHandle
             /\ Completes(p) =>
                   /\ Written(proc[p].user.accessToken)
                   /\ proc'[p].ret = PairOf(cache[proc[p].user.accessToken])
                   /\ ~proc'[p].minted]_vars

C4_Witness ==
    \E p \in Procs :
       /\ proc[p].pc = "done" /\ ~proc[p].minted
       /\ account["acc1"].accessToken = proc[p].handle
       /\ proc[p].ret = PairOf(cache[proc[p].handle])
       /\ signCalls = 1

C6_PointerNamesCachedHandle ==
    \A a \in Accounts :
       account[a].accessToken # NoHandle => Written(account[a].accessToken)

\* C7: the expiresAt that sign returns is the signing instant plus the
\* lifetime in seconds, and is the exp claim of the token.
C7_ExpiresAtIsExp ==
    (issued.at # NoNum /\ issued.out.ok) =>
       /\ issued.out.expiresAt = issued.at + LifetimeSeconds
       /\ issued.out.expiresAt = issued.out.token.claims.exp

\* C8: a token sign issued for a credential payload is accepted by verify
\* at the instant of signing and rejected at every instant later than the
\* lifetime in seconds after it.
C8_RejectedAfterLifetime ==
    ( /\ verdict.at # NoNum
      /\ issued.out.ok /\ ValidPayload(issued.payload)
      /\ verdict.token = issued.out.token ) =>
       /\ verdict.at = issued.at => verdict.res.ok
       /\ verdict.at > issued.at + LifetimeSeconds => ~verdict.res.ok

\* C9: for a credential payload p, verify of the token sign(p) returned,
\* at any instant before the token's exp, succeeds with the id, username,
\* email, role and extension field of p.
C9_RoundTrip ==
    ( /\ verdict.at # NoNum
      /\ issued.out.ok /\ ValidPayload(issued.payload)
      /\ verdict.token = issued.out.token
      /\ verdict.at < issued.out.token.claims.exp ) =>
       /\ verdict.res.ok
       /\ verdict.res.payload.id = issued.payload.id
       /\ verdict.res.payload.username = issued.payload.username
       /\ verdict.res.payload.email = issued.payload.email
       /\ verdict.res.payload.role = issued.payload.role
       /\ verdict.res.payload.ext = issued.payload.ext

\* The extended payload has come back from a token verified after the
\* clock had advanced.
C9_Witness ==
    /\ issued.payload = ExtendedPayload
    /\ verdict.token = issued.out.token
    /\ verdict.at > issued.at
    /\ verdict.res.ok
    /\ verdict.res.payload.ext = "customValue"

\* C10: verify returns a payload exactly when the token is well formed,
\* its signature is the MAC of its claims under the shared secret, its iss,
\* aud and sub are the service name, and it is neither expired nor not yet
\* valid.
WellFormed(token) == token.form = "jwt"
SignatureMatches(token) == token.mac = Mac(SecretKey, token.claims)
ClaimsNameService(token) ==
    /\ token.claims.iss = ServerName
    /\ token.claims.aud = ServerName
    /\ token.claims.sub = ServerName
Expired(token, t) == token.claims.exp # NoNum /\ t >= token.claims.exp
NotYetValid(token, t) == token.claims.nbf # NoNum /\ token.claims.nbf > t

C10_VerifyAcceptsExactly ==
    verdict.at # NoNum =>
       ( verdict.res.ok <=>
            /\ WellFormed(verdict.token)
            /\ SignatureMatches(verdict.token)
            /\ ClaimsNameService(verdict.token)
            /\ ~Expired(verdict.token, verdict.at)
            /\ ~NotYetValid(verdict.token, verdict.at) )

\* A token signed with the shared secret, in time, with the right issuer
\* and audience and a wrong subject has been rejected.
C10_Witness ==
    /\ verdict.at # NoNum
    /\ ~verdict.res.ok
    /\ WellFormed(verdict.token) /\ SignatureMatches(verdict.token)
    /\ verdict.token.claims.iss = ServerName
    /\ verdict.token.claims.aud = ServerName
    /\ verdict.token.claims.sub = "wrong-subject"
    /\ ~Expired(verdict.token, verdict.at)
    /\ ~NotYetValid(verdict.token, verdict.at)

\* C11: decode returns the payload of a token exactly when the token is
\* structurally a JWT with an object payload, whatever its signature, key,
\* expiry and iss/aud/sub claims, and throws on everything else (malformed
\* input, the empty string).
StructurallyJwt(token) == token.form = "jwt" /\ token.kind = "object"

C11_DecodeChecksStructureOnly ==
    decoded.at # NoNum =>
       /\ decoded.res.ok <=> StructurallyJwt(decoded.token)
       /\ decoded.res.ok => decoded.res.payload = decoded.token.claims

\* decode has returned the payload of a token that verify rejects for its
\* signature.
C11_Witness ==
    /\ decoded.at # NoNum
    /\ decoded.res.ok
    /\ decoded.res.payload.id = "user123"
    /\ ~SignatureMatches(decoded.token)
    /\ ~verify(decoded.token, decoded.at).ok

\* C12 as stated: two sign calls of the same payload at different instants
\* return different tokens.
BothSigned ==
    /\ twice.second.at # NoNum
    /\ twice.first.out.ok
    /\ twice.second.out.ok

C12_DifferentInstants ==
    (BothSigned /\ twice.first.at # twice.second.at) =>
       twice.first.out.token # twice.second.out.token

\* C12 as amended: two sign calls of the same payload, which carries no
\* iat of its own, made in different clock seconds return different tokens.
C12_DifferentSeconds ==
    ( /\ BothSigned
      /\ twice.payload.iat = NoNum
      /\ UnixSeconds(twice.first.at) # UnixSeconds(twice.second.at) ) =>
       twice.first.out.token # twice.second.out.token

\* The second call came one second after the first, at a later
\* millisecond, and returned another token.
C12_Witness ==
    /\ BothSigned
    /\ twice.payload = MockPayload
    /\ UnixSeconds(twice.second.at) = UnixSeconds(twice.first.at) + 1
    /\ twice.second.at > twice.first.at + MsPerSecond
    /\ twice.first.out.token # twice.second.out.token

\* C13: the authentication hook lets a request proceed with an identity
\* attached only if verify of the credential codec accepts the bearer
\* token at that instant; a token signed with the shared secret whose iss,
\* aud or sub is not the service name is rejected.
C13_HookAcceptsOnlyVerified ==
    hookRequest.outcome = "proceeded" =>
       /\ verify(BearerToken(hookRequest.header), hookRequest.at).ok
       /\ ClaimsNameService(BearerToken(hookRequest.header))

\* C14: a non-public request that fails authentication is rejected with
\* status 401 and the code of the first failing check, in this order:
\* MISSING_AUTH_TOKEN, INVALID_AUTH_TOKEN_FORMAT, EMPTY_AUTH_TOKEN,
\* TOKEN_EXPIRED, TOKEN_FORMAT_ERROR (malformed or badly signed),
\* TOKEN_NOT_ACTIVE, and TOKEN_VERIFICATION_FAILED for any other failure.
ClaimedAuthCode(header, t) ==
    LET token == BearerToken(header)
    IN  IF HeaderMissing(header) THEN "MISSING_AUTH_TOKEN"
        ELSE IF ~HeaderIsBearer(header) THEN "INVALID_AUTH_TOKEN_FORMAT"
        ELSE IF token.form = "empty" THEN "EMPTY_AUTH_TOKEN"
        ELSE IF Expired(token, t) THEN "TOKEN_EXPIRED"
        ELSE IF ~WellFormed(token) \/ ~SignatureMatches(token)
           THEN "TOKEN_FORMAT_ERROR"
        ELSE IF NotYetValid(token, t) THEN "TOKEN_NOT_ACTIVE"
        ELSE "TOKEN_VERIFICATION_FAILED"

C14_RejectionCodes ==
    hookRequest.outcome = "rejected" =>
       /\ hookRequest.error.statusCode = 401
       /\ hookRequest.error.code
             = ClaimedAuthCode(hookRequest.header, hookRequest.at)

\* C15: the hook skips authentication exactly when the URL starts with a
\* public prefix; any other request proceeds only with a bearer token that
\* jwt.verify accepted under the shared secret at that instant and with
\* the identity of that token attached, and is rejected with 401 otherwise.
C15_PublicOrAuthenticated ==
    hookRequest.at # NoNum =>
       LET token == BearerToken(hookRequest.header)
       IN  /\ hookRequest.outcome \in {"skipped", "proceeded", "rejected"}
           /\ hookRequest.outcome = "skipped"
                 <=> \E route \in PublicRoutes :
                        StartsWith(hookRequest.url, route)
           /\ hookRequest.outcome = "proceeded" =>
                 /\ HeaderIsBearer(hookRequest.header)
                 /\ WellFormed(token) /\ SignatureMatches(token)
                 /\ ~Expired(token, hookRequest.at)
                 /\ ~NotYetValid(token, hookRequest.at)
                 /\ ~Falsy(hookRequest.user.id)
                 /\ hookRequest.user.id = token.claims.id
                 /\ hookRequest.user.username = token.claims.username
           /\ hookRequest.outcome = "rejected" =>
                 /\ hookRequest.error.statusCode = 401
                 /\ hookRequest.user = NoIdentity

\* A request for a path that is the beginning of a public prefix, not an
\* extension of one, went through authentication and proceeded as user123.
C15_Witness ==
    /\ hookRequest.url = <<"/v1", "/auth">>
    /\ hookRequest.outcome = "proceeded"
    /\ hookRequest.user.id = "user123"
    /\ hookRequest.at > StartTime

\* C16: with no rules, every checkPermission call that returns, returns
\* allowed = false, whatever the context.
C16_EmptyStoreDenies ==
    (checked.called /\ ~checked.thrown /\ policy = <<>>) => ~checked.allowed

\* Rules were added and all removed again, and a check that the enforcer
\* answered was denied.
C16_Witness ==
    /\ checked.called /\ checked.enforced
    /\ enforcer = "ready" /\ policy = <<>>
    /\ checked.context = Context("alice", "orders", "read", "prod")
    /\ ~checked.allowed

\* C17: after any sequence of addPolicy and removePolicy calls, a check the
\* enforcer answers is allowed exactly when the current rules contain a
\* rule with effect allow whose subject, object, action and environment
\* are each the context's value or the wildcard.
AllowRuleMatches(context) ==
    \E rule \in {policy[i] : i \in DOMAIN policy} :
       /\ rule.eft = "allow"
       /\ rule.sub \in {context.sub, "*"}
       /\ rule.obj \in {context.obj, "*"}
       /\ rule.act \in {context.act, "*"}
       /\ rule.env \in {context.env, "*"}

DenyRuleMatches(context) ==
    \E i \in DOMAIN policy :
       policy[i].eft = "deny" /\ Matches(policy[i], context)

Reverse(rules) == [i \in DOMAIN rules |-> rules[Len(rules) + 1 - i]]

C19_NeverThrows ==
    checked.called =>
       /\ ~checked.thrown
       /\ (enforcer = "none" \/ ~checked.enforced) => ~checked.allowed

\* The context the hook builds for the request it was called with.
GateContext == extractContext(gate.url, gate.method, gate.userId)

\* C20: a request whose context is not allowed is rejected with an
\* authorization failure (HTTP 403) and does not reach its handler; a
\* request is let through only with an allowed result and with the context
\* attached.
C20_DeniedIs403 ==
    /\ (gate.called /\ gate.outcome = "rejected")
          => gate.error.statusCode = 403
    /\ (gate.called /\ gate.outcome = "proceeded"
          /\ gate.casbinContext # NoContext)
          => (gate.result.allowed /\ gate.casbinContext = GateContext)

\* C21: a run of initializeORMManager that completes on an empty store
\* leaves the bootstrap policies in it, and on a store that holds rules it
\* leaves the store as it was.
C21_SeededIffEmpty ==
    [][(/\ checked'.called
        /\ checked'.context = DefaultPolicy
        /\ checked' # checked)
         => /\ policy = <<>> => policy' = BootstrapPolicies
            /\ policy # <<>> => policy' = policy]_vars

\* C22: resetPassword on an account that has a session handle leaves no
\* cache entry under that handle and leaves the account's pointer empty.
C22_ResetDropsSession ==
    [][\A id \in Accounts, newPassword \in NewPasswords :
          (account[id].accessToken # NoHandle
             /\ ResetPassword(id, newPassword))
          => /\ ~Live(cache'[account[id].accessToken], now')
             /\ account'[id].accessToken = NoHandle]_vars

\* The segments of a url, read off the string: the maximal runs of pieces
\* without a "/" that lie before the first "?", in order, as positions.
PathEnd(url) ==
    LET marks == {i \in DOMAIN url : url[i] = "?"}
    IN  IF marks = {} THEN Len(url)
        ELSE (CHOOSE i \in marks : \A j \in marks : i <= j) - 1
IsRun(url, i, j) ==
    /\ i <= j
    /\ \A k \in i .. j : url[k] # "/"
    /\ i = 1 \/ url[i - 1] = "/"
    /\ j = PathEnd(url) \/ url[j + 1] = "/"
Runs(url) ==
    {run \in (1 .. PathEnd(url)) \X (1 .. PathEnd(url)) :
        IsRun(url, run[1], run[2])}
RunText(url, run) == Join(SubSeq(url, run[1], run[2]))
FirstRun(runs) == CHOOSE run \in runs : \A other \in runs : run[1] <= other[1]

\* C23 as stated: a leading version segment is skipped, and the object is
\* "root" when no segment remains, else the first remaining segment.
ClaimedObject(url) ==
    LET runs == Runs(url)
        rest == IF runs # {} /\ RunText(url, FirstRun(runs)) = ApiVersion
                THEN runs \ {FirstRun(runs)} ELSE runs
    IN  IF rest = {} THEN "root" ELSE RunText(url, FirstRun(rest))
C23_ObjectSkipsVersion ==
    (gate.called /\ gate.casbinContext # NoContext)
       => gate.casbinContext.obj = ClaimedObject(gate.url)

\* C23: the object is "root" when the path has no segment; a leading
\* version segment is skipped when another segment follows it; the object
\* is then the first remaining segment.
AmendedObject(url) ==
    LET runs == Runs(url)
        rest == IF Cardinality(runs) > 1
                   /\ RunText(url, FirstRun(runs)) = ApiVersion
                THEN runs \ {FirstRun(runs)} ELSE runs
    IN  IF rest = {} THEN "root" ELSE RunText(url, FirstRun(rest))
C23_ObjectSkipsVersionBeforeSegment ==
    (gate.called /\ gate.casbinContext # NoContext)
       => gate.casbinContext.obj = AmendedObject(gate.url)
C23_Witness ==
    /\ gate.called
    /\ gate.url = <<"/", "v1", "/", "orders", "/", "42", "?", "x=1">>
    /\ gate.casbinContext.obj = "orders"

\* C24: the action is read, create, update or delete for GET, POST, PUT or
\* PATCH, DELETE in any letter case, and the lower-cased method otherwise;
\* the subject is the identity's id, or "anonymous" without an identity.
ClaimedAction(method) ==
    LET name == toLowerCase(method)
    IN  CASE name = "get" -> "read"
          [] name = "post" -> "create"
          [] name = "put" -> "update"
          [] name = "patch" -> "update"
          [] name = "delete" -> "delete"
          [] OTHER -> name
C24_ActionAndSubject ==
    gate.called
       => /\ gate.casbinContext.act = ClaimedAction(gate.method)
          /\ gate.casbinContext.sub =
                IF gate.userId = Absent THEN "anonymous" ELSE gate.userId
C24_Witness ==
    /\ gate.called
    /\ gate.method = <<"p", "a", "t", "c", "h">>
    /\ gate.userId = Absent
    /\ gate.casbinContext.act = "update"
    /\ gate.casbinContext.sub = "anonymous"

\* Request p signs a credential in this step.
Signs(p) ==
    /\ signCalls' = signCalls + 1
    /\ proc[p].pc # "save"
    /\ proc'[p].pc = "save"
\* Request p returns from the cache in this step.
ReturnsCached(p) ==
    /\ proc[p].pc = "get"
    /\ proc'[p].pc = "done"

\* C25 as stated: a credential carries the role list the account has when
\* it is signed, and a cache hit returns the cached credential whatever the
\* account's roles are by then.
C25_RolesWhenSigned ==
    [][\A p \in Procs :
          /\ Signs(p) =>
                proc'[p].signed.token.claims.role
                   = account[proc'[p].user.id].roles
          /\ ReturnsCached(p) =>
                proc'[p].ret.token
                   = cache[account[proc[p].user.id].accessToken].token]_vars

\* Request p starts in this step: its account lookup resolves.
Reads(p) ==
    /\ ~InFlight(p)
    /\ proc'[p].pc \in {"exists", "save"}

\* C25: a credential carries the role list of the account as the login
\* that signs it read it in its lookup, and a cache hit returns the cached
\* credential whatever the account's roles are by then.
C25_RolesWhenRead ==
    [][\A p \in Procs :
          /\ Reads(p) =>
                proc'[p].user.roles = account[proc'[p].user.id].roles
          /\ Signs(p) =>
                proc'[p].signed.token.claims.role = proc'[p].user.roles
          /\ ReturnsCached(p) =>
                proc'[p].ret.token
                   = cache[account[proc[p].user.id].accessToken].token]_vars
C25_Witness ==
    \E p \in Procs :
       /\ proc[p].pc = "done"
       /\ ~proc[p].minted
       /\ proc[p].ret.token.claims.role # account[proc[p].user.id].roles

\* C26: AbacService.checkPermission returns true exactly when the
\* enforcer allows (sub = account, obj = resource, act = action, env).
C26_BooleanIsDecision ==
    (abac.op = "checkPermission" /\ ~abac.thrown)
       => (abac.returned <=> abac.permission.allowed)

\* The rule AbacService.addPolicy stored for the arguments of the last
\* call, with effect allow.
AbacStored ==
    RuleOfFields(AbacFields(AbacCall(abac.resource, abac.action,
                                     abac.account, abac.env, "allow")))

\* C28: while the rule added by addPolicy(resource, action, account, env,
\* 'allow') is in the store, getPermission with the same arguments reports
\* allowed = true; once it is deleted and no rule is left, allowed = false.
C28_StoredAsChecked ==
    (abac.op = "getPermission" /\ ~abac.thrown /\ abac.permission.enforced
        /\ ~Falsy(abac.env))
       => /\ Has(policy, AbacStored) => abac.permission.allowed
          /\ policy = <<>> => ~abac.permission.allowed

\* C27: a password login with a password that does not match the stored
\* one fails, signs nothing, touches no cache entry and leaves the account
\* as it was.
C27_WrongPasswordRejected ==
    [][\A p \in Procs, request \in Requests :
          (/\ request.name \in Accounts
           /\ ~validatePassword(account[request.name], request.password)
           /\ FindOne(p, request))
          => /\ proc'[p].pc = "failed"
             /\ signCalls' = signCalls
             /\ cache' = cache
             /\ account' = account]_vars

\* C30: wechatLogin for an account whose session pointer has a live cache
\* entry mints no handle, signs nothing and leaves the pointer alone: it
\* goes on to return the cached credential, as login does.
C30_WechatReuses ==
    [][\A p \in Procs, name \in Accounts :
          (/\ account[name].accessToken # NoHandle
           /\ RedisExists(account[name].accessToken, now)
           /\ WechatLogin(p, name)
           /\ proc'[p].pc # "failed")
          => /\ nextHandle' = nextHandle
             /\ signCalls' = signCalls
             /\ proc'[p].pc \in {"exists", "get"}]_vars

\* The tokens sign has issued for the payloads of the model.
IssuedBySign == {sign(p, StartTime, StartTime).token : p \in PlainPayloads}

\* C29: for a token issued by sign that the hook accepts, the identity
\* attached has the token's id and username and a roles list equal to the
\* token's role list; the token sign issues for a payload without a
\* username is rejected with 401.
C29_IdentityIsTokenIdentity ==
    LET token == BearerToken(hookRequest.header)
    IN  /\ (hookRequest.outcome = "proceeded" /\ token \in IssuedBySign)
              => /\ hookRequest.user.id = token.claims.id
                 /\ hookRequest.user.username = token.claims.username
                 /\ hookRequest.user.roles = token.claims.role
        /\ (/\ hookRequest.outcome \in {"proceeded", "rejected"}
            /\ HeaderIsBearer(hookRequest.header)
            /\ token = sign(MinimalPayload, StartTime, StartTime).token)
              => /\ hookRequest.outcome = "rejected"
                 /\ hookRequest.error.statusCode = 401

====
